---- MODULE Spec2Model ----
(***************************************************************************)
(* Model of the inline-watch-expressions extension (src/src/extension.ts). *)
(*                                                                         *)
(* Text is a sequence of one-character strings.  A document is its text;   *)
(* positions are [line, character] records and offsets count characters    *)
(* from 0, exactly as vscode.TextDocument does.                            *)
(***************************************************************************)
EXTENDS Integers, Sequences, FiniteSets, TLC

VARIABLES
    heap,          \* the WatchedValue objects alive, in allocation order; a reference is an index
    value,         \* this.expression.value  : Map<string, WatchedValue>, as <<key, ref>> in insertion order
    request,       \* this.expression.request: Map<number, WatchedValue>, as a set of <<seq, ref>>
    timers,        \* the pending setTimeout timers of queueDecoratorUpdate: ticks left, in creation order
    activeEditor,  \* vscode.window.activeTextEditor: NoEditor or the text of its document
    decorations,   \* what the last setDecorations call applied (disposed with the decoration type)
    adding,        \* the add command suspended on its await, or NoAdd
    last,          \* history: the handler that ran last, its outcome and the request seqs it
                   \* cleared (a protocol message that is ignored leaves no trace, except a
                   \* response to a request that was cleared by the handler `after`)
    sinceTrigger,  \* history: ticks elapsed since queueDecoratorUpdate was last called (capped)
    runs,          \* history: updateDecorators runs since queueDecoratorUpdate was last called (capped)
    burst,         \* history: the last call of queueDecoratorUpdate found a timer pending
    pure           \* the input and output of the pure-function specifications

vars == <<heap, value, request, timers, activeEditor, decorations, adding,
          last, sinceTrigger, runs, burst, pure>>

-----------------------------------------------------------------------------
(* Bounds *)

MaxSeq == 2          \* request sequence numbers are 1..MaxSeq
MaxSelLen == 1       \* a selection covers at most this many characters
DebounceTicks == 2   \* the 500 ms quiet period, in clock ticks
MaxDocLen == 3       \* pure-function inputs: longest document text
MaxExprLen == 2      \* pure-function inputs: longest expression
MaxSpans == 2        \* pure-function inputs: most spans an entity holds
MaxEntries == 2      \* pure-function inputs: most entries of the expression map
MaxLocs == 2         \* pure-function inputs: most locations handed to generateDecorators

-----------------------------------------------------------------------------
(* Text *)

Min(a, b) == IF a <= b THEN a ELSE b
Max(a, b) == IF a >= b THEN a ELSE b

Elems(s) == {s[i] : i \in DOMAIN s}

\* s.substring(from, to), offsets from 0
Sub(s, from, to) == SubSeq(s, from + 1, to)

\* all sequences over A of length at most n
SeqsUpTo(A, n) == UNION {[1..k -> A] : k \in 0..n}

\* all texts over alphabet A of length at most n
Texts(A, n) == SeqsUpTo(A, n)

WordChars == {"x", "y"}
WhiteSpace == {" ", "\n"}

\* \s and \w of a JavaScript regular expression, on the character at offset i
IsSpaceAt(h, i) == i >= 0 /\ i < Len(h) /\ h[i + 1] \in WhiteSpace
IsWordAt(h, i) == i >= 0 /\ i < Len(h) /\ h[i + 1] \in WordChars

\* \b at offset i: exactly one of the characters around i is a word character
WordBoundary(h, i) == IsWordAt(h, i - 1) # IsWordAt(h, i)

RECURSIVE LeadingSpaces(_)
LeadingSpaces(t) ==
    IF t # <<>> /\ Head(t) \in WhiteSpace THEN 1 + LeadingSpaces(Tail(t)) ELSE 0

RECURSIVE TrailingSpaces(_)
TrailingSpaces(t) ==
    IF t # <<>> /\ t[Len(t)] \in WhiteSpace
    THEN 1 + TrailingSpaces(SubSeq(t, 1, Len(t) - 1))
    ELSE 0

-----------------------------------------------------------------------------
(* escapeRegExp and the regular expression of getExpressionLocations *)

RegExpSpecial == {".", "*", "+", "?", "^", "$", "{", "}", "(", ")", "|", "[", "]", "\\"}

RECURSIVE escapeRegExp(_)
escapeRegExp(string) ==
    IF string = <<>> THEN <<>>
    ELSE (IF Head(string) \in RegExpSpecial THEN <<"\\", Head(string)>> ELSE <<Head(string)>>)
         \o escapeRegExp(Tail(string))

\* The atoms a pattern source compiles to: \c is the literal c, an unescaped dot
\* matches any character but a line break, any other character is itself.
RECURSIVE Atoms(_)
Atoms(source) ==
    IF source = <<>> THEN <<>>
    ELSE IF Head(source) = "\\" /\ Len(source) >= 2
         THEN <<[lit |-> TRUE, ch |-> source[2]]>> \o Atoms(Tail(Tail(source)))
         ELSE <<[lit |-> Head(source) # ".", ch |-> Head(source)]>> \o Atoms(Tail(source))

AtomMatches(a, c) == IF a.lit THEN c = a.ch ELSE c # "\n"

\* the atoms match the haystack at offset p
AtomsAt(h, atoms, p) ==
    /\ p + Len(atoms) <= Len(h)
    /\ \A k \in 1..Len(atoms) : AtomMatches(atoms[k], h[p + k])

\* (\s|\b): the offsets the leading group can stop at, in the order tried
LeadingGroup(h, i) ==
    (IF IsSpaceAt(h, i) THEN <<i + 1>> ELSE <<>>)
    \o (IF WordBoundary(h, i) THEN <<i>> ELSE <<>>)

\* (\s|\b|[|]|(|)): where the trailing group ends; the first alternative that
\* matches wins, and the last one, (|), matches the empty string anywhere.
TrailingGroup(h, q) ==
    IF IsSpaceAt(h, q) THEN q + 1
    ELSE IF WordBoundary(h, q) THEN q
    ELSE IF q < Len(h) /\ h[q + 1] = "|" THEN q + 1
    ELSE q

NoMatch == [index |-> -1, at |-> -1, end |-> -1]

\* one attempt of the regular expression at offset i; `at` is where the
\* expression itself starts (after the leading group)
MatchAt(h, atoms, i) ==
    LET starts == SelectSeq(LeadingGroup(h, i), LAMBDA p : AtomsAt(h, atoms, p))
    IN  IF starts = <<>> THEN NoMatch
        ELSE [index |-> i, at |-> starts[1],
              end |-> TrailingGroup(h, starts[1] + Len(atoms))]

\* regex.exec(haystack) with the g flag: the first offset from lastIndex on
\* where the expression matches
RECURSIVE Exec(_, _, _)
Exec(h, atoms, lastIndex) ==
    IF lastIndex > Len(h) THEN NoMatch
    ELSE IF MatchAt(h, atoms, lastIndex) # NoMatch THEN MatchAt(h, atoms, lastIndex)
    ELSE Exec(h, atoms, lastIndex + 1)

\* while ((match = regex.exec(haystack))): every match, left to right; the next
\* search starts where the last match ended
RECURSIVE ExecAll(_, _, _)
ExecAll(h, atoms, lastIndex) ==
    LET m == Exec(h, atoms, lastIndex)
    IN  IF m = NoMatch THEN <<>>
        ELSE <<m>> \o ExecAll(h, atoms, m.end)

MatchAll(haystack, expression) == ExecAll(haystack, Atoms(escapeRegExp(expression)), 0)

-----------------------------------------------------------------------------
(* vscode.TextDocument, vscode.Position, vscode.Range *)

Pos(l, c) == [line |-> l, character |-> c]

\* a < b, a <= b in document order
IsBefore(a, b) == a.line < b.line \/ (a.line = b.line /\ a.character < b.character)
IsBeforeOrEqual(a, b) == a = b \/ IsBefore(a, b)

\* new vscode.Range(a, b): the ends are put in order
NewRange(a, b) == IF IsBefore(b, a) THEN [start |-> b, end |-> a] ELSE [start |-> a, end |-> b]

\* range.intersection(other): undefined (FALSE here) when the ranges are apart; an
\* empty range, which is an object and so truthy, when they only touch
Intersects(range, other) ==
    LET start == IF IsBefore(range.start, other.start) THEN other.start ELSE range.start
        end == IF IsBefore(other.end, range.end) THEN other.end ELSE range.end
    IN  IsBeforeOrEqual(start, end)

LineCount(doc) == 1 + Cardinality({i \in DOMAIN doc : doc[i] = "\n"})

\* the offset at which line l starts
LineStart(doc, l) ==
    IF l = 0 THEN 0
    ELSE CHOOSE i \in DOMAIN doc :
            doc[i] = "\n" /\ Cardinality({j \in 1..i : doc[j] = "\n"}) = l

\* document.lineAt(l).text.length, for a line of the document
LineLength(doc, l) ==
    (IF l + 1 < LineCount(doc) THEN LineStart(doc, l + 1) - 1 ELSE Len(doc)) - LineStart(doc, l)

\* document.positionAt(offset): the offset is first brought into the document
positionAt(doc, offset) ==
    LET o == Max(0, Min(offset, Len(doc)))
        l == Cardinality({j \in 1..o : doc[j] = "\n"})
    IN  Pos(l, o - LineStart(doc, l))

\* document.validatePosition
validatePosition(doc, p) ==
    IF p.line < 0 THEN Pos(0, 0)
    ELSE IF p.line >= LineCount(doc)
         THEN Pos(LineCount(doc) - 1, LineLength(doc, LineCount(doc) - 1))
         ELSE Pos(p.line, Max(0, Min(p.character, LineLength(doc, p.line))))

\* document.offsetAt(position): the position is first brought into the document
offsetAt(doc, p) ==
    LET q == validatePosition(doc, p)
    IN  LineStart(doc, q.line) + q.character

\* document.getText(range)
getText(doc, range) == Sub(doc, offsetAt(doc, range.start), offsetAt(doc, range.end))

IsValidPosition(doc, p) ==
    /\ p.line >= 0 /\ p.line < LineCount(doc)
    /\ p.character >= 0 /\ p.character <= LineLength(doc, p.line)

-----------------------------------------------------------------------------
(* getExpressionLocations *)

\* value?: { type; result }.  result is kept as an opaque token: NoResult when the
\* object has no result field, "" for the empty string.
NoResult == "<undefined>"
Undefined == [kind |-> "undefined", error |-> FALSE, result |-> NoResult]
Body(e, r) == [kind |-> "object", error |-> e, result |-> r]

\* if (x): undefined and the empty string are falsy
Truthy(r) == r # NoResult /\ r # ""

\* a resolver that searches the document whatever the entity's spans
LocationsBySearch(document, expression, watch) ==
    LET found == MatchAll(document, expression)
    IN  [i \in 1..Len(found) |->
            [expression |-> expression, value |-> watch.value.result,
             text |-> Sub(document, found[i].index, found[i].end),
             start |-> positionAt(document, found[i].index)]]

\* the locations of one [expression, watch] entry
LocationsOf(document, expression, watch) ==
    IF watch.renderAt # <<>>
    THEN [i \in 1..Len(watch.renderAt) |->
            [expression |-> expression, value |-> watch.value.result,
             text |-> expression, start |-> watch.renderAt[i].start]]
    ELSE LET found == MatchAll(document, expression)
         IN  [i \in 1..Len(found) |->
                [expression |-> expression, value |-> watch.value.result,
                 text |-> Sub(document, found[i].index, found[i].end),
                 start |-> positionAt(document, found[i].index)]]

\* expressions: a sequence of [expression, watch] entries, in iteration order
RECURSIVE getExpressionLocations(_, _)
getExpressionLocations(document, expressions) ==
    IF expressions = <<>> THEN <<>>
    ELSE LocationsOf(document, Head(expressions).expression, Head(expressions).watch)
         \o getExpressionLocations(document, Tail(expressions))

-----------------------------------------------------------------------------
(* generateDecorators *)

\* Array.prototype.sort with (a, b) => a.expression.length - b.expression.length:
\* a stable sort, so an element goes after those that do not compare greater
\* an insertion that keeps the order of arrival
InsertAtEnd(sorted, x) == Append(sorted, x)

RECURSIVE InsertByLength(_, _)
InsertByLength(sorted, x) ==
    IF sorted = <<>> THEN <<x>>
    ELSE IF Len(Head(sorted).expression) - Len(x.expression) > 0
         THEN <<x>> \o sorted
         ELSE <<Head(sorted)>> \o InsertByLength(Tail(sorted), x)

RECURSIVE SortByLengthFrom(_, _)
SortByLengthFrom(sorted, rest) ==
    IF rest = <<>> THEN sorted
    ELSE SortByLengthFrom(InsertByLength(sorted, Head(rest)), Tail(rest))

SortByExpressionLength(expressionLocations) == SortByLengthFrom(<<>>, expressionLocations)

\* lines 93-103: the end of the decorated range.  threw: document.lineAt was
\* asked for line -1, which throws.
EndPosition(document, loc) ==
    LET end == positionAt(document, offsetAt(document, loc.start) + Len(loc.text))
        suffixOffset == TrailingSpaces(loc.text)
    IN  IF end.character - suffixOffset < 0
        THEN IF end.line - 1 < 0
             THEN [line |-> end.line - 1, character |-> 0, threw |-> TRUE]
             ELSE [line |-> end.line - 1, character |-> LineLength(document, end.line - 1),
                   threw |-> FALSE]
        ELSE [line |-> end.line, character |-> end.character - suffixOffset, threw |-> FALSE]

\* the .map callback; `expression` is kept beside the decoration to tell whose it is
DecoratorOf(document, loc) ==
    LET e == EndPosition(document, loc)
    IN  [range |-> NewRange(Pos(loc.start.line, loc.start.character + LeadingSpaces(loc.text)),
                            Pos(e.line, e.character)),
         before |-> "(",
         after |-> loc.value,
         expression |-> loc.expression]

\* threw: the callback throws for one of the locations (Illegal value for line),
\* and no list is returned
generateDecorators(document, expressionLocations) ==
    LET sorted == SortByExpressionLength(expressionLocations)
    IN  IF \E i \in DOMAIN sorted : EndPosition(document, sorted[i]).threw
        THEN [threw |-> TRUE, list |-> <<>>]
        ELSE [threw |-> FALSE, list |-> [i \in DOMAIN sorted |-> DecoratorOf(document, sorted[i])]]

-----------------------------------------------------------------------------
(* The Extension object: its maps, timer and commands *)

\* the document an editor can show, and no editor at all
DocA == <<"x">>
Editors == {DocA}
NoEditor == <<"<no editor>">>

\* the ranges of doc that cover at most n characters, empty ones included
SelectionsUpTo(doc, n) ==
    {NewRange(positionAt(doc, p[1]), positionAt(doc, p[2])) :
        p \in {q \in (0..Len(doc)) \X (0..Len(doc)) : q[1] <= q[2] /\ q[2] - q[1] <= n}}

\* editor.selection
Selections(doc) == SelectionsUpTo(doc, MaxSelLen)

\* the expressions the watch window asks the debug adapter to evaluate
WatchExprs == {<<"x">>, <<"x", "x">>}

NoAdd == [expression |-> <<>>, selection |-> NewRange(Pos(0, 0), Pos(0, 0)), commands |-> FALSE]

\* Map.get: the reference stored under key, 0 for undefined
MapGet(map, key) ==
    IF \E i \in DOMAIN map : map[i].key = key
    THEN map[CHOOSE i \in DOMAIN map : map[i].key = key].ref
    ELSE 0

\* Map.get on the request map
RequestGet(req, seq) ==
    IF \E e \in req : e.seq = seq THEN (CHOOSE e \in req : e.seq = seq).ref ELSE 0

\* a set that stores nothing
RequestSetNothing(req, seq, ref) == req

\* Map.set on the request map
RequestSet(req, seq, ref) == {e \in req : e.seq # seq} \cup {[seq |-> seq, ref |-> ref]}

\* [...this.expression.value.entries()] as [expression, watch] entries
Entries(h, v) == [i \in DOMAIN v |-> [expression |-> v[i].key, watch |-> h[v[i].ref]]]

\* a debounce that does not clear the pending timer
debounceWithoutClear(pending) == Append(pending, DebounceTicks)

\* debounce, lines 31-34: clearTimeout(timeout) removes the timer created last if
\* it is still pending (timers of one delay fire in creation order, so it is the
\* last one pending); setTimeout adds a timer
debounce(pending) ==
    (IF pending = <<>> THEN <<>> ELSE SubSeq(pending, 1, Len(pending) - 1))
    \o <<DebounceTicks>>

\* this.queueDecoratorUpdate()
queueDecoratorUpdate ==
    /\ timers' = debounce(timers)
    /\ sinceTrigger' = 0
    /\ runs' = 0
    /\ burst' = (timers # <<>>)

NotQueued == UNCHANGED <<timers, sinceTrigger, runs, burst>>

Did(op, outcome) == [op |-> op, outcome |-> outcome, cleared |-> {}, after |-> ""]

\* an add that keeps the spans the selection intersects
AddKeepsIntersecting(st, selection, expression) ==
    LET existingWatch == MapGet(st.value, expression)
    IN  IF existingWatch # 0
        THEN [st EXCEPT !.heap[existingWatch].renderAt = Append(@, selection)]
        ELSE [heap |-> Append(st.heap, [expression |-> expression, value |-> Undefined,
                                        renderAt |-> <<selection>>]),
              value |-> Append(st.value, [key |-> expression, ref |-> Len(st.heap) + 1])]

\* lines 154-164 on the store st = [heap, value]
AddToStore(st, selection, expression) ==
    LET existingWatch == MapGet(st.value, expression)
    IN  IF existingWatch # 0
        THEN [st EXCEPT !.heap[existingWatch].renderAt =
                SelectSeq(@, LAMBDA range : ~Intersects(range, selection)) \o <<selection>>]
        ELSE [heap |-> Append(st.heap, [expression |-> expression, value |-> Undefined,
                                        renderAt |-> <<selection>>]),
              value |-> Append(st.value, [key |-> expression, ref |-> Len(st.heap) + 1])]

\* a remove whose filter keeps the spans it should drop
RemoveKeepsIntersecting(st, selection, expression) ==
    LET existingWatch == MapGet(st.value, expression)
    IN  IF existingWatch # 0
        THEN [st EXCEPT !.heap[existingWatch].renderAt =
                SelectSeq(@, LAMBDA range : Intersects(range, selection))]
        ELSE st

\* lines 184-186 on the store st = [heap, value]
RemoveFromStore(st, selection, expression) ==
    LET existingWatch == MapGet(st.value, expression)
    IN  IF existingWatch # 0
        THEN [st EXCEPT !.heap[existingWatch].renderAt =
                SelectSeq(@, LAMBDA range : ~Intersects(range, selection))]
        ELSE st

Store == [heap |-> heap, value |-> value]

\* a command or a session callback writes to the maps while the add command is
\* suspended
CommandDuringAwait ==
    adding' = IF adding = NoAdd THEN adding ELSE [adding EXCEPT !.commands = TRUE]

\* a test that lets the empty string through
NoExpressionNever(expression) == FALSE

\* if (!expression), lines 150 and 180: the empty string is falsy
NoExpression(expression) == expression = <<>>

\* the add command
AddInlineWatchExpressionDecorator(selection) ==
    /\ activeEditor # NoEditor
    /\ adding = NoAdd
    /\ LET expression == getText(activeEditor, selection)
           existingWatch == MapGet(value, expression)
           st == AddToStore(Store, selection, expression)
       IN  IF NoExpression(expression)
           THEN /\ last' = Did("add", "No expression selected")
                /\ NotQueued
                /\ UNCHANGED <<heap, value, adding>>
           ELSE IF existingWatch # 0
           THEN /\ heap' = st.heap
                /\ value' = st.value
                /\ queueDecoratorUpdate
                /\ last' = Did("add", "Updated watch")
                /\ UNCHANGED adding
           ELSE /\ heap' = st.heap
                /\ value' = st.value
                /\ adding' = [expression |-> expression, selection |-> selection,
                               commands |-> FALSE]
                /\ NotQueued
                /\ last' = Did("add", "await")
    /\ UNCHANGED <<request, activeEditor, decorations, pure>>

\* the add command resumes after await executeCommand('editor.debug.action.selectionToWatch')
AddResumes ==
    /\ adding # NoAdd
    /\ adding' = NoAdd
    /\ queueDecoratorUpdate
    /\ last' = Did("add", "Added watch")
    /\ UNCHANGED <<heap, value, request, activeEditor, decorations, pure>>

\* the remove command
RemoveInlineWatchExpressionDecorator(selection) ==
    /\ activeEditor # NoEditor
    /\ LET expression == getText(activeEditor, selection)
           existingWatch == MapGet(value, expression)
           st == RemoveFromStore(Store, selection, expression)
       IN  IF NoExpression(expression)
           THEN /\ last' = Did("remove", "No expression selected")
                /\ NotQueued
                /\ UNCHANGED <<heap, value, adding>>
           ELSE IF existingWatch # 0
           THEN /\ heap' = st.heap
                /\ value' = st.value
                /\ queueDecoratorUpdate
                /\ CommandDuringAwait
                /\ last' = Did("remove", "Removed watch")
           ELSE /\ last' = Did("remove", "No watch found")
                /\ NotQueued
                /\ UNCHANGED <<heap, value, adding>>
    /\ UNCHANGED <<request, activeEditor, decorations, pure>>

\* a clear that forgets the request map
clearExpressionsKeepsRequests ==
    /\ value' = <<>>
    /\ UNCHANGED <<request, heap>>
    /\ queueDecoratorUpdate

\* a clear that does not queue an update
clearExpressionsUnqueued ==
    /\ value' = <<>>
    /\ request' = {}
    /\ heap' = <<>>
    /\ NotQueued

\* lines 226-230
clearExpressions ==
    /\ value' = <<>>
    /\ request' = {}
    /\ heap' = <<>>
    /\ queueDecoratorUpdate

\* the reset command
ResetInlineWatchExpressionDecorators ==
    /\ clearExpressions
    /\ last' = [Did("reset", "Removed all watches") EXCEPT !.cleared = {e.seq : e \in request}]
    /\ CommandDuringAwait
    /\ UNCHANGED <<activeEditor, decorations, pure>>

onWillStartSession ==
    /\ clearExpressions
    /\ last' = [Did("onWillStartSession", "cleared") EXCEPT !.cleared = {e.seq : e \in request}]
    /\ CommandDuringAwait
    /\ UNCHANGED <<activeEditor, decorations, pure>>

onWillStopSession ==
    /\ clearExpressions
    /\ last' = [Did("onWillStopSession", "cleared") EXCEPT !.cleared = {e.seq : e \in request}]
    /\ CommandDuringAwait
    /\ UNCHANGED <<activeEditor, decorations, pure>>

-----------------------------------------------------------------------------
(* The debug adapter tracker: messages seen on their way *)

NoField == "<undefined>"

\* messages from the debug adapter to the editor
EvaluateResponses ==
    {[type |-> "response", command |-> "evaluate", success |-> TRUE, body |-> b, request_seq |-> q] :
        b \in {Body(FALSE, "1")}, q \in 1..MaxSeq}
    \cup
    {[type |-> "response", command |-> "evaluate", success |-> FALSE, body |-> b, request_seq |-> q] :
        b \in {Undefined, Body(TRUE, NoResult), Body(FALSE, NoResult)}, q \in 1..MaxSeq}

Incoming ==
    EvaluateResponses
    \cup {[type |-> "response", command |-> "next", success |-> TRUE, body |-> Undefined, request_seq |-> 1],
          [type |-> "event", command |-> NoField, success |-> TRUE, body |-> Body(FALSE, NoResult), request_seq |-> 0]}

\* messages from the editor to the debug adapter
Outgoing ==
    {[type |-> "request", command |-> "evaluate", seq |-> q, context |-> c, expression |-> e] :
        q \in 1..MaxSeq, c \in {"watch", "hover"}, e \in WatchExprs}
    \cup {[type |-> "request", command |-> c, seq |-> 1, context |-> NoField, expression |-> <<>>] :
            c \in {"next", "continue"}}

\* lines 235-246
onDidSendMessage(message) ==
    /\ message \in Incoming
    /\ IF message.type = "response" /\ message.command = "evaluate"
       THEN IF message.body.kind = "undefined"
            THEN \* message.body.error: a property read of undefined throws
                 /\ last' = Did("onDidSendMessage", "TypeError")
                 /\ NotQueued
                 /\ UNCHANGED heap
            ELSE IF ~message.body.error /\ RequestGet(request, message.request_seq) # 0
            THEN /\ heap' = [heap EXCEPT ![RequestGet(request, message.request_seq)].value = message.body]
                 /\ queueDecoratorUpdate
                 /\ last' = Did("onDidSendMessage", "set")
            ELSE /\ last' = IF message.request_seq \in last.cleared
                            THEN [Did("onDidSendMessage", "dropped late") EXCEPT
                                    !.cleared = last.cleared,
                                    !.after = IF last.after = "" THEN last.op ELSE last.after]
                            ELSE last
                 /\ NotQueued
                 /\ UNCHANGED heap
       ELSE /\ UNCHANGED last
            /\ NotQueued
            /\ UNCHANGED heap
    /\ UNCHANGED <<value, request, activeEditor, decorations, adding, pure>>

\* lines 247-268
onWillReceiveMessage(message) ==
    /\ message \in Outgoing
    /\ IF message.command = "next"
       THEN /\ clearExpressions
            /\ last' = [Did("onWillReceiveMessage", "next") EXCEPT !.cleared = {e.seq : e \in request}]
       ELSE IF message.command = "evaluate" /\ message.type = "request" /\ message.context = "watch"
       THEN LET existingWatch == MapGet(value, message.expression)
            IN  /\ IF existingWatch # 0
                   THEN /\ request' = RequestSet(request, message.seq, existingWatch)
                        /\ UNCHANGED <<heap, value>>
                   ELSE /\ heap' = Append(heap, [expression |-> message.expression,
                                                 value |-> Undefined, renderAt |-> <<>>])
                        /\ value' = Append(value, [key |-> message.expression, ref |-> Len(heap) + 1])
                        /\ request' = RequestSet(request, message.seq, Len(heap) + 1)
                /\ NotQueued
                /\ last' = IF request' # request THEN Did("onWillReceiveMessage", "watch") ELSE last
       ELSE /\ UNCHANGED last
            /\ NotQueued
            /\ UNCHANGED <<heap, value, request>>
    /\ UNCHANGED <<activeEditor, decorations, adding, pure>>

-----------------------------------------------------------------------------
(* The timer and the editor *)

\* line 220: the entries whose watch has a value with a truthy result
WithValue(entries) == SelectSeq(entries, LAMBDA e : Truthy(e.watch.value.result))

\* lines 216-222: what updateDecorators hands to setDecorations for this store and document
Rendered(h, v, document) ==
    generateDecorators(document, getExpressionLocations(document, WithValue(Entries(h, v))))

\* an update that adds to the decorations already applied
updateDecoratorsKeepsOld ==
    IF activeEditor = NoEditor
    THEN /\ UNCHANGED decorations
         /\ last' = Did("updateDecorators", "no editor")
    ELSE /\ decorations' = decorations \o Rendered(heap, value, activeEditor).list
         /\ last' = Did("updateDecorators", "applied")

\* lines 206-224
updateDecorators ==
    IF activeEditor = NoEditor
    THEN /\ UNCHANGED decorations
         /\ last' = Did("updateDecorators", "no editor")
    ELSE \* the old decoration type is disposed before anything is computed
         /\ decorations' = Rendered(heap, value, activeEditor).list
         /\ last' = Did("updateDecorators",
                        IF Rendered(heap, value, activeEditor).threw THEN "threw" ELSE "applied")

\* the oldest pending timer has run out: its callback runs
TimerFires ==
    /\ timers # <<>>
    /\ Head(timers) = 0
    /\ timers' = Tail(timers)
    /\ runs' = Min(runs + 1, 2)
    /\ updateDecorators
    /\ UNCHANGED <<heap, value, request, activeEditor, adding, sinceTrigger, burst, pure>>

\* one tick of time passes
Tick ==
    /\ sinceTrigger < DebounceTicks \/ \E i \in DOMAIN timers : timers[i] > 0
    /\ timers' = [i \in DOMAIN timers |-> Max(timers[i] - 1, 0)]
    /\ sinceTrigger' = Min(sinceTrigger + 1, DebounceTicks)
    /\ UNCHANGED <<heap, value, request, activeEditor, decorations, adding, last, runs, burst, pure>>

\* the user opens, switches to or closes an editor
SetActiveTextEditor(editor) ==
    /\ editor \in Editors \cup {NoEditor}
    /\ editor # activeEditor
    /\ activeEditor' = editor
    /\ UNCHANGED <<heap, value, request, timers, decorations, adding, last,
                   sinceTrigger, runs, burst, pure>>

-----------------------------------------------------------------------------
(* The extension in a debug session *)

Idle == [fn |-> "none"]

\* new Extension(): empty maps, no timer
Constructed ==
    /\ heap = <<>>
    /\ value = <<>>
    /\ request = {}
    /\ timers = <<>>
    /\ activeEditor = NoEditor
    /\ decorations = <<>>
    /\ adding = NoAdd
    /\ last = Did("activate", "")
    /\ sinceTrigger = DebounceTicks
    /\ runs = 0
    /\ burst = FALSE

Init ==
    /\ Constructed
    /\ pure = Idle

Add == \E selection \in Selections(activeEditor) : AddInlineWatchExpressionDecorator(selection)
Remove == \E selection \in Selections(activeEditor) : RemoveInlineWatchExpressionDecorator(selection)
Receive == \E message \in Incoming : onDidSendMessage(message)
Send == \E message \in Outgoing : onWillReceiveMessage(message)
SwitchEditor == \E editor \in Editors \cup {NoEditor} : SetActiveTextEditor(editor)

Next ==
    \/ Add
    \/ AddResumes
    \/ Remove
    \/ ResetInlineWatchExpressionDecorators
    \/ onWillStartSession
    \/ onWillStopSession
    \/ Receive
    \/ Send
    \/ TimerFires
    \/ Tick
    \/ SwitchEditor

Spec == Init /\ [][Next]_vars

\* The steps of TimerFires, told by what they do to the timers: a timer leaves the
\* list only when it fires.
TimerRuns ==
    /\ timers # <<>>
    /\ Head(timers) = 0
    /\ timers' = Tail(timers)

\* time passes, and the event loop runs the callback of a timer that has run out
FairSpec == Spec /\ WF_vars(Tick) /\ WF_timers(TimerRuns)

-----------------------------------------------------------------------------
(* The regular expression on its own: the document and the expression are     *)
(* drawn at the start, one step runs the while loop of lines 69-78.           *)

MatchAlphabet == {"x", "y", " ", "|", "."}

Extension == <<heap, value, request, timers, activeEditor, decorations, adding,
               last, sinceTrigger, runs, burst>>

MatchInit ==
    /\ Constructed
    /\ \E document \in Texts(MatchAlphabet, MaxDocLen) :
         \E expression \in Texts(MatchAlphabet, MaxExprLen) \ {<<>>} :
            pure = [fn |-> "matchAll", document |-> document, expression |-> expression,
                    done |-> FALSE, out |-> <<>>]

RunMatchAll ==
    /\ pure.fn = "matchAll"
    /\ ~pure.done
    /\ pure' = [pure EXCEPT !.done = TRUE, !.out = MatchAll(pure.document, pure.expression)]
    /\ UNCHANGED Extension

MatchNext == RunMatchAll

MatchSpec == MatchInit /\ [][MatchNext]_vars

-----------------------------------------------------------------------------
(* The add and remove commands on one entity: the document, the spans the     *)
(* entity holds and the selection are drawn at the start; one step runs lines *)
(* 154-164, the next lines 184-186.                                           *)

RoundTripAlphabet == {"x", " "}

\* the selections of doc whose text is expression
SpansOf(doc, expression) ==
    {r \in SelectionsUpTo(doc, MaxExprLen) : getText(doc, r) = expression}

\* the renderAt lists an entity can hold: add keeps the spans apart
SpanLists(doc, expression) ==
    {l \in SeqsUpTo(SpansOf(doc, expression), MaxSpans) :
        \A i, j \in DOMAIN l : i # j => ~Intersects(l[i], l[j])}

\* the store that holds one entity, with a value, for expression
StoreOf(expression, renderAt) ==
    [heap |-> <<[expression |-> expression, value |-> Body(FALSE, "1"), renderAt |-> renderAt]>>,
     value |-> <<[key |-> expression, ref |-> 1]>>]

EmptyStore == [heap |-> <<>>, value |-> <<>>]

\* existingWatch.renderAt, nothing for an expression that is not tracked
explicitSpans(st, expression) ==
    IF MapGet(st.value, expression) # 0 THEN st.heap[MapGet(st.value, expression)].renderAt ELSE <<>>

RoundTripInit ==
    /\ Constructed
    /\ \E document \in Texts(RoundTripAlphabet, MaxDocLen) :
         \E selection \in SelectionsUpTo(document, MaxExprLen) :
            /\ ~NoExpression(getText(document, selection))
            /\ \E st \in {EmptyStore} \cup
                          {StoreOf(getText(document, selection), l) :
                              l \in SpanLists(document, getText(document, selection))} :
                  pure = [fn |-> "roundTrip", document |-> document, selection |-> selection,
                          expression |-> getText(document, selection),
                          before |-> st, store |-> st, stage |-> "start"]

RunAdd ==
    /\ pure.fn = "roundTrip"
    /\ pure.stage = "start"
    /\ pure' = [pure EXCEPT !.stage = "added",
                            !.store = AddToStore(pure.store, pure.selection, pure.expression)]
    /\ UNCHANGED Extension

RunRemove ==
    /\ pure.fn = "roundTrip"
    /\ pure.stage = "added"
    /\ pure' = [pure EXCEPT !.stage = "removed",
                            !.store = RemoveFromStore(pure.store, pure.selection, pure.expression)]
    /\ UNCHANGED Extension

RoundTripNext ==
    \/ RunAdd
    \/ RunRemove

RoundTripSpec == RoundTripInit /\ [][RoundTripNext]_vars

-----------------------------------------------------------------------------
(* updateDecorators' computation on its own: the document of the active       *)
(* editor and the entries that have a value are drawn at the start; one step  *)
(* runs lines 216-222.  The explicit spans of an entity were selected in a    *)
(* document `origin`, which need not be the one now shown.                    *)

DecoAlphabet == {"x", " ", "\n"}

Resolved(expression, renderAt) ==
    [expression |-> expression,
     watch |-> [expression |-> expression, value |-> Body(FALSE, "1"), renderAt |-> renderAt]]

\* entries from the watch window, and entries the add command made in origin
DecoEntry ==
    {Resolved(e, <<>>) : e \in Texts(DecoAlphabet, MaxExprLen) \ {<<>>}}
    \cup UNION {{Resolved(getText(origin, s), <<s>>) :
                    s \in {r \in SelectionsUpTo(origin, MaxExprLen) : ~NoExpression(getText(origin, r))}} :
                origin \in Texts(DecoAlphabet, MaxDocLen)}

\* a Map holds a key once
DecoEntries ==
    {l \in SeqsUpTo(DecoEntry, MaxEntries) :
        l # <<>> /\ \A i, j \in DOMAIN l : i # j => l[i].expression # l[j].expression}

DecoInit ==
    /\ Constructed
    /\ \E document \in Texts(DecoAlphabet, MaxDocLen) :
         \E entries \in DecoEntries :
            pure = [fn |-> "generateDecorators", document |-> document, entries |-> entries,
                    done |-> FALSE, locations |-> <<>>, out |-> [threw |-> FALSE, list |-> <<>>]]

RunGenerateDecorators ==
    /\ pure.fn = "generateDecorators"
    /\ ~pure.done
    /\ pure' = [pure EXCEPT
                    !.done = TRUE,
                    !.locations = getExpressionLocations(pure.document, WithValue(pure.entries)),
                    !.out = generateDecorators(pure.document,
                                getExpressionLocations(pure.document, WithValue(pure.entries)))]
    /\ UNCHANGED Extension

DecoNext == RunGenerateDecorators

DecoSpec == DecoInit /\ [][DecoNext]_vars

-----------------------------------------------------------------------------
(* generateDecorators on its own: the list of locations is drawn at the start, *)
(* each the location of an explicit span of the document; one step runs lines  *)
(* 90-123.                                                                     *)

SortDoc == <<"x", " ", "x">>

SortLocation ==
    {[expression |-> e, value |-> "1", text |-> e, start |-> positionAt(SortDoc, o)] :
        e \in Texts({"x", " "}, MaxExprLen) \ {<<>>}, o \in 0..Len(SortDoc)}

SortInit ==
    /\ Constructed
    /\ \E expressionLocations \in SeqsUpTo(SortLocation, MaxLocs) :
            pure = [fn |-> "sort", document |-> SortDoc, locations |-> expressionLocations,
                    done |-> FALSE, out |-> [threw |-> FALSE, list |-> <<>>]]

RunSort ==
    /\ pure.fn = "sort"
    /\ ~pure.done
    /\ pure' = [pure EXCEPT !.done = TRUE,
                            !.out = generateDecorators(pure.document, pure.locations)]
    /\ UNCHANGED Extension

SortNext == RunSort

SortSpec == SortInit /\ [][SortNext]_vars

-----------------------------------------------------------------------------
(* The commands in an editor that shows a longer document, which stays open:  *)
(* the add and remove commands run on any selection of it, between the        *)
(* messages of a debug session.                                               *)

\* one line of x: its selections touch, overlap and lie apart
CommandDoc == [i \in 1..MaxDocLen |-> "x"]

CommandInit ==
    /\ heap = <<>>
    /\ value = <<>>
    /\ request = {}
    /\ timers = <<>>
    /\ activeEditor = CommandDoc
    /\ decorations = <<>>
    /\ adding = NoAdd
    /\ last = Did("activate", "")
    /\ sinceTrigger = DebounceTicks
    /\ runs = 0
    /\ burst = FALSE
    /\ pure = Idle

AddAnywhere ==
    \E selection \in SelectionsUpTo(activeEditor, MaxExprLen) :
        AddInlineWatchExpressionDecorator(selection)

RemoveAnywhere ==
    \E selection \in SelectionsUpTo(activeEditor, MaxExprLen) :
        RemoveInlineWatchExpressionDecorator(selection)

\* the watch window asks for an evaluation, under the first seq
SendWatch ==
    \E message \in {m \in Outgoing : m.command = "evaluate" /\ m.context = "watch" /\ m.seq = 1} :
        onWillReceiveMessage(message)

\* the debug adapter answers it with a value
ReceiveValue ==
    \E message \in {m \in EvaluateResponses : m.success /\ m.request_seq = 1} :
        onDidSendMessage(message)

CommandNext ==
    \/ AddAnywhere
    \/ AddResumes
    \/ RemoveAnywhere
    \/ SendWatch
    \/ ReceiveValue

CommandSpec == CommandInit /\ [][CommandNext]_vars

-----------------------------------------------------------------------------
(* The filter and the resolver on their own: the document and the entries of  *)
(* the expression map, with and without a value, are drawn at the start; one  *)
(* step runs lines 217-221, and getExpressionLocations on every entry that    *)
(* has a value.                                                               *)

\* what an entity's value can be: undefined until a response sets it to the body
\* of the response, whose result is any string
Values == {Undefined, Body(FALSE, ""), Body(FALSE, "1")}

LocateEntry(document) ==
    UNION {{[expression |-> e, watch |-> [expression |-> e, value |-> v, renderAt |-> l]] :
                v \in Values, l \in SpanLists(document, e)} :
           e \in Texts({"x"}, MaxExprLen) \ {<<>>}}

\* the entries getExpressionLocations can be given: line 56 reads watch.value!.result
Valued(entries) == SelectSeq(entries, LAMBDA e : e.watch.value # Undefined)

LocateInit ==
    /\ Constructed
    /\ \E document \in Texts(RoundTripAlphabet, MaxDocLen) :
         \E entries \in {l \in SeqsUpTo(LocateEntry(document), MaxEntries) :
                            \A i, j \in DOMAIN l : i # j => l[i].expression # l[j].expression} :
            pure = [fn |-> "locate", document |-> document, entries |-> entries,
                    done |-> FALSE, out |-> <<>>, resolved |-> <<>>]

RunLocate ==
    /\ pure.fn = "locate"
    /\ ~pure.done
    /\ pure' = [pure EXCEPT !.done = TRUE,
                            !.out = getExpressionLocations(pure.document, WithValue(pure.entries)),
                            !.resolved = getExpressionLocations(pure.document, Valued(pure.entries))]
    /\ UNCHANGED Extension

LocateNext == RunLocate

LocateSpec == LocateInit /\ [][LocateNext]_vars

-----------------------------------------------------------------------------
(* Properties *)

Scheduler == <<timers, sinceTrigger, runs, burst>>

\* C1: an outgoing "next" leaves the expression map and the request map empty, and
\* an evaluate response whose request_seq was pending when the maps were cleared
\* changes neither map, sets no value and queues no update.
C1_NextClearsAndLateResponseIsDropped ==
    [][ /\ \A message \in Outgoing :
              (message.command = "next" /\ onWillReceiveMessage(message))
                  => (value' = <<>> /\ request' = {})
        /\ \A message \in EvaluateResponses :
              (message.request_seq \in last.cleared /\ onDidSendMessage(message))
                  => UNCHANGED <<heap, value, request, Scheduler>>
      ]_vars

\* a response to a request that a "next" cleared has been dropped
C1_LateResponseDropped ==
    /\ last.op = "onDidSendMessage"
    /\ last.outcome = "dropped late"
    /\ last.after = "onWillReceiveMessage"
    /\ value = <<>>
    /\ request = {}

\* C2: an evaluate response with success = false (with or without a body or a
\* body.error) or with a request_seq that is not pending changes no entity, neither
\* map, queues no update, and the handler does not throw.
C2_FailedOrUnknownResponseChangesNothing ==
    [][ \A message \in EvaluateResponses :
            (onDidSendMessage(message)
             /\ (~message.success \/ RequestGet(request, message.request_seq) = 0))
                => /\ UNCHANGED <<heap, value, request, Scheduler>>
                   /\ ~(message.body = Undefined /\ last'.outcome = "TypeError")
      ]_vars

\* C3, for an expression that is an identifier: every occurrence the regular
\* expression returns is the expression, preceded by whitespace or a word boundary
\* and followed by whitespace, a word boundary or one of [ ] ( ) |; so it is never
\* a part of a longer identifier.
C3_OnlyDelimitedOccurrences ==
    (pure.fn = "matchAll" /\ pure.done /\ Elems(pure.expression) \subseteq WordChars) =>
        \A i \in DOMAIN pure.out :
            LET from == pure.out[i].at
                to == pure.out[i].at + Len(pure.expression)
            IN  /\ Sub(pure.document, from, to) = pure.expression
                /\ IsSpaceAt(pure.document, from - 1) \/ WordBoundary(pure.document, from)
                /\ \/ IsSpaceAt(pure.document, to)
                   \/ WordBoundary(pure.document, to)
                   \/ to < Len(pure.document) /\ pure.document[to + 1] \in {"[", "]", "(", ")", "|"}

\* C4 as stated: add of a selection followed by remove of the same selection leaves
\* the expression's spans as they were before the add, whatever they were.
C4_AddThenRemoveRestoresSpans ==
    (pure.fn = "roundTrip" /\ pure.stage = "removed") =>
        explicitSpans(pure.store, pure.expression) = explicitSpans(pure.before, pure.expression)

\* C4: add of a selection followed by remove of the same selection leaves the spans
\* held before the add that do not intersect the selection, in their order: the
\* spans are restored exactly when none of them intersects (overlaps or touches)
\* the selection, which includes an expression that was not tracked.
C4_AddThenRemoveKeepsSpansApart ==
    (pure.fn = "roundTrip" /\ pure.stage = "removed") =>
        LET before == explicitSpans(pure.before, pure.expression)
            after == explicitSpans(pure.store, pure.expression)
            apart == SelectSeq(before, LAMBDA range : ~Intersects(range, pure.selection))
        IN  /\ after = apart
            /\ (after = before) = (\A i \in DOMAIN before : ~Intersects(before[i], pure.selection))

\* add then remove has run on an entity that held a span apart from the selection
C4_RestoredBesideOtherSpan ==
    /\ pure.fn = "roundTrip"
    /\ pure.stage = "removed"
    /\ explicitSpans(pure.before, pure.expression) # <<>>
    /\ explicitSpans(pure.store, pure.expression) = explicitSpans(pure.before, pure.expression)

\* C5: a timer that fires with no active editor changes neither the store nor the
\* decorations, and once an editor is active whose decorations are not those of the
\* store, they are applied without a further call of queueDecoratorUpdate.
C5_AppliedOnceEditorIsActive ==
    /\ [][(TimerFires /\ activeEditor = NoEditor)
            => UNCHANGED <<heap, value, request, decorations>>]_vars
    /\ (activeEditor # NoEditor /\ timers = <<>>
        /\ decorations # Rendered(heap, value, activeEditor).list)
          ~> \/ decorations = Rendered(heap, value, activeEditor).list
             \/ timers # <<>>
             \/ activeEditor = NoEditor

\* C6: at most one timer is pending; a timer fires only when the quiet period has
\* passed since the last call of queueDecoratorUpdate, it is the only run since
\* that call and leaves no timer pending; and unless the calls go on for ever, the
\* timer does fire.
C6_OneRunPerBurstAfterQuietPeriod ==
    /\ [](Len(timers) <= 1)
    /\ [][TimerFires => /\ sinceTrigger = DebounceTicks
                        /\ runs = 0
                        /\ runs' = 1
                        /\ timers' = <<>>]_vars
    /\ []<>(sinceTrigger = 0) \/ <>[](timers = <<>>)

\* a call that found a timer pending was followed by one run
C6_BurstThenOneRun ==
    /\ burst
    /\ runs = 1
    /\ timers = <<>>
    /\ last.op = "updateDecorators"

ClearStep ==
    \/ ResetInlineWatchExpressionDecorators
    \/ onWillStartSession
    \/ onWillStopSession
    \/ \E message \in Outgoing : message.command = "next" /\ onWillReceiveMessage(message)

\* C7: reset, session start, session stop and an outgoing "next" leave both maps
\* empty whatever they held, empty maps included, and leave one timer pending for
\* the full quiet period; a timer that fires on an empty expression map with an
\* active editor applies no decoration.
C7_ClearEmptiesAndQueues ==
    /\ [][ClearStep => /\ value' = <<>>
                       /\ request' = {}
                       /\ timers' = <<DebounceTicks>>]_vars
    /\ [][(TimerFires /\ value = <<>> /\ activeEditor # NoEditor)
            => (decorations' = <<>> /\ last'.outcome = "applied")]_vars

\* a session stop has cleared maps that held a pending request, while decorations
\* are shown
C7_ClearedWhileShown ==
    /\ last.op = "onWillStopSession"
    /\ last.cleared # {}
    /\ value = <<>>
    /\ request = {}
    /\ timers = <<DebounceTicks>>
    /\ decorations # <<>>

\* C8: the end of a decorated range is on the line of the end of the text with the
\* trailing whitespace taken off the column, or, when that is negative, at the end
\* of the previous line; it is a position of the document.
C8_EndPositionIsValid ==
    (pure.fn = "generateDecorators" /\ pure.done) =>
        \A i \in DOMAIN pure.locations :
            LET loc == pure.locations[i]
                end == positionAt(pure.document, offsetAt(pure.document, loc.start) + Len(loc.text))
                e == EndPosition(pure.document, loc)
            IN  /\ ~e.threw
                /\ IsValidPosition(pure.document, Pos(e.line, e.character))
                /\ IF end.character - TrailingSpaces(loc.text) < 0
                   THEN e.line = end.line - 1 /\ e.character = LineLength(pure.document, e.line)
                   ELSE e.line = end.line
                        /\ e.character = end.character - TrailingSpaces(loc.text)

\* C9: there is one decoration for each location, and the decorations are in
\* non-decreasing order of expression length.
C9_DecorationsInLengthOrder ==
    (pure.fn = "sort" /\ pure.done) =>
        /\ ~pure.out.threw
        /\ Len(pure.out.list) = Len(pure.locations)
        /\ \A i, j \in DOMAIN pure.out.list :
              i < j => Len(pure.out.list[i].expression) <= Len(pure.out.list[j].expression)

\* the location of the longer expression came first, the two decorations have the
\* same range, and the longer expression's is the last
C9_LongerMovedLast ==
    /\ pure.fn = "sort"
    /\ pure.done
    /\ Len(pure.locations) = 2
    /\ Len(pure.locations[1].expression) > Len(pure.locations[2].expression)
    /\ pure.out.list[2].expression = pure.locations[1].expression
    /\ pure.out.list[1].range = pure.out.list[2].range

\* C10: a step of the add or the remove command with an empty selected text changes
\* no map, no entity, issues no selectionToWatch, and leaves the timer as it is.
C10_EmptySelectionChangesNothing ==
    [][ last'.op \in {"add", "remove"} =>
          \A selection \in Selections(activeEditor) :
            (getText(activeEditor, selection) = <<>>
             /\ (\/ AddInlineWatchExpressionDecorator(selection)
                 \/ RemoveInlineWatchExpressionDecorator(selection)))
                => UNCHANGED <<heap, value, request, adding, decorations, Scheduler>>
      ]_vars

\* add was told "No expression selected" while a watch was tracked and a timer was
\* part of the way through the quiet period
C10_NothingSelectedWhilePending ==
    /\ last = Did("add", "No expression selected")
    /\ value # <<>>
    /\ timers # <<>>
    /\ timers[1] < DebounceTicks

\* C11: whenever the add command resumes after its await and reports "Added watch",
\* the expression map holds an entity for the added expression whose renderAt
\* contains the selection, whatever messages were handled during the await.
C11_AddedWatchIsInStore ==
    [][ (adding # NoAdd /\ ~adding.commands /\ adding' = NoAdd /\ AddResumes)
            => LET watch == MapGet(value', adding.expression)
               IN  /\ watch # 0
                   /\ adding.selection \in Elems(heap'[watch].renderAt)
      ]_vars

\* C12: in every reachable state each key of the expression map maps to an entity
\* whose expression field is that key, and every entry of the request map refers
\* to the entity that the expression map holds under that entity's expression.
C12_MapsAgree ==
    /\ \A i \in DOMAIN value :
          /\ value[i].ref \in DOMAIN heap
          /\ heap[value[i].ref].expression = value[i].key
    /\ \A e \in request :
          /\ e.ref \in DOMAIN heap
          /\ MapGet(value, heap[e.ref].expression) = e.ref

\* two requests are pending for two tracked expressions while the add command is
\* suspended on its await
C12_PendingDuringAwait ==
    /\ adding # NoAdd
    /\ Len(value) = 2
    /\ Cardinality(request) = 2
    /\ \E e \in request : heap[e.ref].expression = adding.expression

\* C13: an outgoing evaluate request with context "watch" for expression e and seq s
\* leaves an entity for e in the expression map and the request map pointing to it
\* under s; a tracked e keeps its entity, with value and renderAt as they were, an
\* untracked e gets a new entity with no value and an empty renderAt; every other
\* entity and request entry stays. An evaluate with another context, and a message
\* that is neither "next" nor a watch evaluate, leaves both maps as they were.
C13_WatchRequestTracksEntity ==
    [][ UNCHANGED <<timers, adding, activeEditor>> =>
        \A message \in Outgoing :
          onWillReceiveMessage(message) =>
            IF message.command = "evaluate" /\ message.context = "watch"
            THEN LET before == MapGet(value, message.expression)
                     after == MapGet(value', message.expression)
                 IN  /\ after # 0
                     /\ RequestGet(request', message.seq) = after
                     /\ \A e \in request : e.seq # message.seq => e \in request'
                     /\ \A e \in request' : e.seq # message.seq => e \in request
                     /\ IF before # 0
                        THEN after = before /\ UNCHANGED <<heap, value>>
                        ELSE /\ heap'[after] = [expression |-> message.expression,
                                                value |-> Undefined, renderAt |-> <<>>]
                             /\ \A i \in DOMAIN heap : heap'[i] = heap[i]
                             /\ \A i \in DOMAIN value : value'[i] = value[i]
                             /\ Len(value') = Len(value) + 1
            ELSE message.command # "next" => UNCHANGED <<heap, value, request>>
      ]_vars

\* a second watch request for an expression that already has a value and explicit
\* spans: two seqs point to the one entity
C13_TwoRequestsOneEntity ==
    /\ last = Did("onWillReceiveMessage", "watch")
    /\ \E e1 \in request : \E e2 \in request :
          /\ e1.seq # e2.seq
          /\ e1.ref = e2.ref
          /\ heap[e1.ref].value # Undefined
          /\ heap[e1.ref].renderAt # <<>>

\* C14: the remove command on a selection whose text e is tracked leaves in the
\* renderAt of e's entity exactly the old spans that do not intersect the selection,
\* in their order; the entity stays in the expression map with its value, every
\* other entity and both maps stay as they were, also when renderAt becomes empty
\* (the entity is then located by the search of the whole document), and an update
\* is queued.  When e is not tracked nothing changes and nothing is queued.
C14_RemoveOnlyDropsIntersectingSpans ==
    [][ last'.op = "remove" =>
        \A selection \in SelectionsUpTo(activeEditor, MaxExprLen) :
          (getText(activeEditor, selection) # <<>>
           /\ RemoveInlineWatchExpressionDecorator(selection)) =>
            LET expression == getText(activeEditor, selection)
                watch == MapGet(value, expression)
            IN  IF watch # 0
                THEN /\ value' = value
                     /\ request' = request
                     /\ DOMAIN heap' = DOMAIN heap
                     /\ \A i \in DOMAIN heap : i # watch => heap'[i] = heap[i]
                     /\ heap'[watch].expression = expression
                     /\ heap'[watch].value = heap[watch].value
                     /\ Elems(heap'[watch].renderAt) =
                            {range \in Elems(heap[watch].renderAt) : ~Intersects(range, selection)}
                     /\ Len(heap'[watch].renderAt) <= Len(heap[watch].renderAt)
                     /\ \A i, j \in DOMAIN heap'[watch].renderAt :
                            i < j => \E k, l \in DOMAIN heap[watch].renderAt :
                                        /\ k < l
                                        /\ heap[watch].renderAt[k] = heap'[watch].renderAt[i]
                                        /\ heap[watch].renderAt[l] = heap'[watch].renderAt[j]
                     /\ (heap'[watch].renderAt = <<>> /\ Truthy(heap'[watch].value.result)) =>
                            Len(LocationsOf(activeEditor, expression, heap'[watch]))
                                = Len(MatchAll(activeEditor, expression))
                     /\ timers' # <<>>
                     /\ timers'[Len(timers')] = DebounceTicks
                     /\ sinceTrigger' = 0
                ELSE UNCHANGED <<heap, value, request, Scheduler>>
      ]_vars

\* remove took the last explicit span of an entity that has a value and a pending
\* request: the entity is still tracked, with both
C14_LastSpanRemoved ==
    /\ last = Did("remove", "Removed watch")
    /\ \E e \in request :
          /\ heap[e.ref].renderAt = <<>>
          /\ Truthy(heap[e.ref].value.result)
          /\ MapGet(value, heap[e.ref].expression) = e.ref

\* the spans of every entity are pairwise non-intersecting
SpansApart(h) ==
    \A w \in DOMAIN h : \A i, j \in DOMAIN h[w].renderAt :
        i # j => ~Intersects(h[w].renderAt[i], h[w].renderAt[j])

\* C19: in every reachable state the renderAt spans of each entity are pairwise
\* non-intersecting, and the add command on a tracked expression leaves the old
\* spans that do not intersect the selection, followed by the selection.
C19_ExplicitSpansStayApart ==
    /\ []SpansApart(heap)
    /\ [][ last'.op = "add" =>
           \A selection \in SelectionsUpTo(activeEditor, MaxExprLen) :
             LET expression == getText(activeEditor, selection)
                 watch == MapGet(value, expression)
             IN  (expression # <<>> /\ watch # 0
                  /\ AddInlineWatchExpressionDecorator(selection)) =>
                    /\ heap'[watch].renderAt[Len(heap'[watch].renderAt)] = selection
                    /\ Elems(heap'[watch].renderAt) =
                          {range \in Elems(heap[watch].renderAt) : ~Intersects(range, selection)}
                          \cup {selection}
                    /\ Len(heap'[watch].renderAt) =
                          Cardinality({i \in DOMAIN heap[watch].renderAt :
                                          ~Intersects(heap[watch].renderAt[i], selection)}) + 1
         ]_vars

\* add put a second span beside one that the selection does not intersect
C19_SecondSpanAdded ==
    /\ last = Did("add", "Updated watch")
    /\ \E w \in DOMAIN heap : Len(heap[w].renderAt) = 2

\* C15: the locations a recomputation produces are those of the entities whose
\* value is present: none for an entity whose value is undefined, and for an entity
\* with a value, whatever its result string, its explicit spans or else its matches
\* in the whole document.
C15_LocationsForEveryValue ==
    (pure.fn = "locate" /\ pure.done) =>
        \A i \in DOMAIN pure.entries :
            LET entry == pure.entries[i]
                located == SelectSeq(pure.out, LAMBDA loc : loc.expression = entry.expression)
            IN  IF entry.watch.value = Undefined
                THEN located = <<>>
                ELSE located = LocationsOf(pure.document, entry.expression, entry.watch)

\* C16: when a timer fires while an editor is active, the decorations applied after
\* the step are exactly what the resolver and the builder give for the maps and the
\* document of that moment; nothing applied before survives: every decoration is
\* that of an expression tracked now, shows its current result, and starts at one
\* of its current explicit spans when it has any.
C16_AppliedSetIsRecomputed ==
    [][ (TimerRuns /\ activeEditor # NoEditor) =>
          /\ decorations' =
                generateDecorators(activeEditor,
                    getExpressionLocations(activeEditor,
                        SelectSeq(Entries(heap, value),
                                  LAMBDA e : Truthy(e.watch.value.result)))).list
          /\ \A i \in DOMAIN decorations' :
                LET watch == MapGet(value, decorations'[i].expression)
                IN  /\ watch # 0
                    /\ decorations'[i].after = heap[watch].value.result
                    /\ heap[watch].renderAt # <<>> =>
                          \E range \in Elems(heap[watch].renderAt) :
                              decorations'[i].range.start = range.start
      ]_vars

\* a firing applied decorations while a tracked expression had no value
C16_AppliedWithUnvaluedEntity ==
    /\ last = Did("updateDecorators", "applied")
    /\ decorations # <<>>
    /\ \E w \in DOMAIN heap : heap[w].value = Undefined

\* C17: for an entity with a value and a non-empty renderAt the resolver yields one
\* location per span, in the order of the spans, each starting at the span's start
\* with the expression as its text, and none anywhere else; for an entity with a
\* value and an empty renderAt it yields one location per match of the regular
\* expression in the document.
C17_ExplicitSpansReplaceSearch ==
    (pure.fn = "locate" /\ pure.done) =>
        \A i \in DOMAIN pure.entries :
            LET entry == pure.entries[i]
                spans == entry.watch.renderAt
                found == MatchAll(pure.document, entry.expression)
                located == SelectSeq(pure.resolved, LAMBDA loc : loc.expression = entry.expression)
            IN  entry.watch.value # Undefined =>
                  IF spans # <<>>
                  THEN /\ Len(located) = Len(spans)
                       /\ \A k \in DOMAIN spans :
                             /\ located[k].start = spans[k].start
                             /\ located[k].text = entry.expression
                             /\ located[k].value = entry.watch.value.result
                  ELSE /\ Len(located) = Len(found)
                       /\ \A k \in DOMAIN found :
                             /\ located[k].start = positionAt(pure.document, found[k].index)
                             /\ located[k].text = Sub(pure.document, found[k].index, found[k].end)
                             /\ located[k].value = entry.watch.value.result

\* an entity with one explicit span in a document where the expression also occurs
\* elsewhere: one location, at the span
C17_SpanBesideOtherOccurrence ==
    /\ pure.fn = "locate"
    /\ pure.done
    /\ \E i \in DOMAIN pure.entries :
          /\ pure.entries[i].watch.value # Undefined
          /\ Len(pure.entries[i].watch.renderAt) = 1
          /\ Len(MatchAll(pure.document, pure.entries[i].expression)) = 2
          /\ Len(SelectSeq(pure.resolved,
                           LAMBDA loc : loc.expression = pure.entries[i].expression)) = 1

\* C18, for an expression that is an identifier: the decoration of every match of
\* the regular expression has the range of the expression's own text, from the
\* position of its first character to the position just after its last one,
\* whether the match took a space, a line break or nothing before and after it.
C18_RangeCoversExpressionOnly ==
    (pure.fn = "generateDecorators" /\ pure.done /\ ~pure.out.threw) =>
        \A i \in DOMAIN pure.entries :
            LET entry == pure.entries[i]
                found == MatchAll(pure.document, entry.expression)
                decorated == SelectSeq(pure.out.list,
                                       LAMBDA d : d.expression = entry.expression)
            IN  (entry.watch.renderAt = <<>> /\ Elems(entry.expression) \subseteq WordChars) =>
                    /\ Len(decorated) = Len(found)
                    /\ \A k \in DOMAIN found :
                          decorated[k].range =
                              NewRange(positionAt(pure.document, found[k].at),
                                       positionAt(pure.document,
                                                  found[k].at + Len(entry.expression)))

====
